---- MODULE Spec2Model ----
(***************************************************************************)
(* The persistent tag/rule store of muddle (muddled/db.py, class Database) *)
(* and the worker processes that coordinate through it.                     *)
(*                                                                         *)
(* The sqlite tables are modelled as functions and sets:                    *)
(*   rules            target -> [status, owner]   (owner = pid/uuid pair)   *)
(*   labels           label  -> [done, transient]                           *)
(*   rules_to_build   set of targets                                        *)
(*   rules_to_labels  set of <<dep, rule_target>>                           *)
(*   labels_to_rules  set of <<target, rule_target>>                        *)
(*   processes        process -> [master, pause_requested_by, paused]       *)
(* Each process also has the in-memory sets local_tags and local_rules.     *)
(* Every Database method is an operator from the store to the store; one    *)
(* sqlite transaction is one step.                                          *)
(***************************************************************************)
EXTENDS Integers, FiniteSets, Sequences, TLC

\* ---------------------------------------------------------------- bounds
NumLabels == 3        \* definite labels (each is the target of one rule)
NumProcs == 3         \* processes that may use the processes table
NumWorkers == 2       \* of them, the workers that run the scheduler loop
MaxCheckouts == 3     \* checkouts selected for one pull, push or merge command

\* ------------------------------------------------------- program constants
CLEAR == 0
PROCESSING == 1
DONE == 2
NULL == 0             \* SQL NULL in owner_uuid / pause_requested_by
WILD == 0             \* the target of the wildcard rule (name field '*')

Labels == 1..NumLabels
Procs == 1..NumProcs
Workers == 1..(IF NumWorkers < NumProcs THEN NumWorkers ELSE NumProcs)

VARIABLES
    ruleset,      \* the build description's RuleSet, as every process loads it
    db,           \* the root database's tables and each process's local sets
    processes,    \* the processes table of the root database
    pc,           \* where each process is in its loop
    cand,         \* the rule a worker holds from get_satisfied_rule
    args,         \* the arguments of a call of one of the pure functions
    result        \* what that call returned

vars == <<ruleset, db, processes, pc, cand, args, result>>

\* no call made
NoCall == <<>>

\* ------------------------------------------------------------- SQL helpers
\* INSERT OR REPLACE of one row
Replace(t, k, row) == [x \in DOMAIN t \cup {k} |-> IF x = k THEN row ELSE t[x]]
\* INSERT OR IGNORE of the rows new[k], k \in K
InsertIgnore(t, K, new) == [x \in DOMAIN t \cup K |-> IF x \in DOMAIN t THEN t[x] ELSE new[x]]
\* DELETE ... WHERE key in K
Delete(t, K) == [x \in DOMAIN t \ K |-> t[x]]
EmptyTable == [x \in {} |-> x]

\* --------------------------------------------------------------- rule sets
\* A rule is named by its target.  rs.deps[l] are the (expanded) dependency
\* labels of the rule for l, rs.transient the labels flagged transient,
\* rs.master the targets whose action requires the master, rs.wild the
\* definite labels the wildcard rule's target matches (none: no such rule).
RuleTargets(rs) == DOMAIN rs.deps \cup (IF rs.wild = {} THEN {} ELSE {WILD})
RuleDeps(rs, r) == IF r = WILD THEN {} ELSE rs.deps[r]
IsTransient(l) == l \in ruleset.transient
RequiresMaster(rs, r) == r \in rs.master
is_wildcard(l) == l = WILD
\* Label.match(a, b) is not None
Matches(rs, a, b) ==
    \/ a = b
    \/ a = WILD /\ b \in rs.wild
    \/ b = WILD /\ a \in rs.wild
\* RuleSet.rules_for_target(label): the rules whose target matches label
rules_for_target(rs, l) == {r \in RuleTargets(rs) : Matches(rs, l, r)}

\* depend.needed_to_build_labels(ruleset, targets, useMatch=True), as a set
RECURSIVE NeededFrom(_, _, _)
NeededFrom(rs, have, n) ==
    IF n = 0 THEN have
    ELSE LET more == UNION {UNION {rules_for_target(rs, d) : d \in RuleDeps(rs, r)} : r \in have}
         IN  NeededFrom(rs, have \cup more, n - 1)
needed_to_build_labels(rs, targets) ==
    NeededFrom(rs, UNION {rules_for_target(rs, t) : t \in targets}, NumLabels + 1)

\* ------------------------------------------------ the database at creation
\* _connect_db creates the tables empty; Database.__init__ the empty local sets
EmptyDb ==
    [rules |-> EmptyTable, labels |-> EmptyTable, rules_to_build |-> EmptyTable,
     rules_to_labels |-> {}, labels_to_rules |-> {},
     local_tags |-> [p \in Procs |-> {}], local_rules |-> [p \in Procs |-> {}]]

\* ------------------------------------------------------------ tag methods
is_tag_done(S, p, l) ==
    IF IsTransient(l) THEN l \in S.local_tags[p]
    ELSE l \in DOMAIN S.labels /\ S.labels[l].done

\* (mutant) the INSERT OR REPLACE done for a transient label as well
set_tag_persist(S, p, l) ==
    [S EXCEPT !.labels = Replace(@, l, [done |-> TRUE, transient |-> IsTransient(l)])]
set_tag(S, p, l) ==
    IF IsTransient(l)
        THEN [S EXCEPT !.local_tags[p] = @ \cup {l}]
        ELSE [S EXCEPT !.labels = Replace(@, l, [done |-> TRUE, transient |-> IsTransient(l)])]

clear_tag(S, p, l) ==
    IF IsTransient(l)
        THEN [S EXCEPT !.local_tags[p] = @ \ {l}]
        ELSE [S EXCEPT !.labels = Delete(@, {l})]

\* ----------------------------------------------------------- rule queries
RuleRowIs(S, r, state) == r \in DOMAIN S.rules /\ S.rules[r].status = state
is_rule_n(S, p, r, state) ==
    IF IsTransient(r) /\ state = CLEAR
        THEN r \notin S.local_rules[p] /\ ~RuleRowIs(S, r, PROCESSING)
    ELSE IF IsTransient(r) /\ state = DONE
        THEN r \in S.local_rules[p]
    ELSE RuleRowIs(S, r, state)
is_rule_clear(S, p, r) == is_rule_n(S, p, r, CLEAR)
is_rule_processing(S, p, r) == is_rule_n(S, p, r, PROCESSING)
is_rule_done(S, p, r) == is_rule_n(S, p, r, DONE)
get_rule_for_label(S, l) == IF l \in DOMAIN S.rules THEN {l} ELSE {}

\* ------------------------------------------------------ loading the rules
clear_rules(S) ==
    [S EXCEPT !.labels_to_rules = {}, !.rules_to_labels = {}, !.rules = EmptyTable]

\* the rows set_ruleset computes before it opens the database
LabelToRule(rs) == {<<l, r>> \in RuleTargets(rs) \X RuleTargets(rs) : r \in rules_for_target(rs, l)}
RuleToLabel(rs) == {<<d, r>> \in Labels \X RuleTargets(rs) : d \in RuleDeps(rs, r)}

set_ruleset(S, rs) ==
    IF RuleToLabel(rs) \cap S.rules_to_labels # {}
        \* INSERT INTO rules_to_labels violates its primary key: the
        \* transaction is rolled back and the handler clears the rules
        THEN clear_rules(S)
        ELSE [S EXCEPT
                !.rules = InsertIgnore(@, RuleTargets(rs),
                              [r \in RuleTargets(rs) |-> [status |-> CLEAR, owner |-> NULL]]),
                !.labels = InsertIgnore(@, RuleTargets(rs),
                              [l \in RuleTargets(rs) |-> [done |-> FALSE, transient |-> l \in rs.transient]]),
                !.labels_to_rules = @ \cup LabelToRule(rs),
                !.rules_to_labels = @ \cup RuleToLabel(rs)]

set_rules(S, p, rs, targets) ==
    IF RuleToLabel(rs) \cap S.rules_to_labels # {}
        THEN clear_rules(S)      \* set_ruleset raised
        ELSE LET S1 == set_ruleset(S, rs)
                 build == {r \in needed_to_build_labels(rs, targets) :
                              ~is_rule_done(S1, p, r) /\ ~is_tag_done(S1, p, r)}
             IN  [S1 EXCEPT !.rules_to_build =
                    InsertIgnore(@, build, [r \in build |-> RequiresMaster(rs, r)])]

\* -------------------------------------------------- choosing a rule to run
rule_deps_satisfied(S, p, r) == \A l \in RuleDeps(ruleset, r) : is_tag_done(S, p, l)

\* (mutant) the SELECT without its req_master condition
SqlCandidates_any_master(S, allow_master, req_master) ==
    {t \in DOMAIN S.rules_to_build :
        ~\E dr \in S.rules_to_labels :
              /\ dr[2] = t
              /\ dr[1] \in DOMAIN S.labels
              /\ ~S.labels[dr[1]].done
              /\ ~S.labels[dr[1]].transient}
\* the targets the SELECT on rules_to_build yields
SqlCandidates(S, allow_master, req_master) ==
    {t \in DOMAIN S.rules_to_build :
        /\ IF ~allow_master THEN ~S.rules_to_build[t]
           ELSE IF req_master THEN S.rules_to_build[t] ELSE TRUE
        /\ ~\E dr \in S.rules_to_labels :
              /\ dr[2] = t
              /\ dr[1] \in DOMAIN S.labels
              /\ ~S.labels[dr[1]].done
              /\ ~S.labels[dr[1]].transient}

\* get_satisfied_rule returns the first row that passes both checks; the
\* order of the rows is not fixed, so it may return any member of this set,
\* and returns None exactly when the set is empty
get_satisfied_rule(S, p, allow_master, req_master) ==
    {t \in SqlCandidates(S, allow_master, req_master) :
        /\ get_rule_for_label(S, t) # {}
        /\ is_rule_clear(S, p, t)
        /\ rule_deps_satisfied(S, p, t)}

\* ------------------------------------------------------ claim and release
\* (mutant) only the local set is updated, the UPDATE is left out
set_rule_clear_local_only(S, p, r) ==
    IF IsTransient(r) THEN [S EXCEPT !.local_rules[p] = @ \ {r}] ELSE S
set_rule_clear(S, p, r) ==
    LET S1 == IF IsTransient(r) THEN [S EXCEPT !.local_rules[p] = @ \ {r}] ELSE S
    IN  IF r \in DOMAIN S1.rules
            THEN [S1 EXCEPT !.rules[r] = [status |-> CLEAR, owner |-> NULL]]
            ELSE S1

\* (mutant) the UPDATE without "and status=CLEAR"
set_rule_processing_update_any(S, p, r) ==
    LET S1 == IF IsTransient(r) THEN [S EXCEPT !.local_rules[p] = @ \ {r}] ELSE S
    IN  IF r \in DOMAIN S1.rules
            THEN [S1 EXCEPT !.rules[r] = [status |-> PROCESSING, owner |-> p]]
            ELSE S1
\* set_rule_processing, first transaction: the conditional UPDATE
set_rule_processing_update(S, p, r) ==
    LET S1 == IF IsTransient(r) THEN [S EXCEPT !.local_rules[p] = @ \ {r}] ELSE S
    IN  IF RuleRowIs(S1, r, CLEAR)
            THEN [S1 EXCEPT !.rules[r] = [status |-> PROCESSING, owner |-> p]]
            ELSE S1
\* (mutant) the SELECT without the owner columns
set_rule_processing_result_any(S, p, r) == RuleRowIs(S, r, PROCESSING)
\* set_rule_processing, the SELECT that gives its result
set_rule_processing_result(S, p, r) ==
    RuleRowIs(S, r, PROCESSING) /\ S.rules[r].owner = p

\* (mutant) the wildcard rules are never looked at
label_wild_rules_done_always(S, l) == TRUE
label_wild_rules_done(S, l) ==
    ~\E lr \in S.labels_to_rules :
        /\ lr[1] = l
        /\ lr[2] \in DOMAIN S.rules
        /\ lr[1] # lr[2]
        /\ S.rules[lr[2]].status # DONE
\* the method evaluates is_rule_done and returns nothing: None, false to its caller
label_exact_rule_done(S, p, l) == FALSE

RECURSIVE TagRealised(_, _, _)
TagRealised(S, p, todo) ==
    IF todo = {} THEN S
    ELSE LET l == CHOOSE x \in todo : TRUE
             S1 == IF label_wild_rules_done(S, l) /\ label_exact_rule_done(S, p, l)
                      THEN set_tag(S, p, l) ELSE S
         IN  TagRealised(S1, p, todo \ {l})

\* (mutant) the row is marked done whether or not the target is transient
set_rule_done_status_done(S, p, r) ==
    LET S1 == IF IsTransient(r) THEN [S EXCEPT !.local_rules[p] = @ \cup {r}] ELSE S
        S2 == IF r \in DOMAIN S1.rules
                THEN [S1 EXCEPT !.rules[r] = [status |-> DONE, owner |-> NULL]]
                ELSE S1
        S3 == IF IsTransient(r) THEN S2
              ELSE [S2 EXCEPT !.rules_to_build = Delete(@, {r})]
        S4 == IF is_wildcard(r)
                THEN TagRealised(S3, p, {lr[1] : lr \in {x \in S3.labels_to_rules : x[2] = r}})
                ELSE S3
    IN  IF ~is_wildcard(r) /\ label_wild_rules_done(S4, r) THEN set_tag(S4, p, r) ELSE S4
set_rule_done(S, p, r) ==
    LET S1 == IF IsTransient(r) THEN [S EXCEPT !.local_rules[p] = @ \cup {r}] ELSE S
        status == IF IsTransient(r) THEN CLEAR ELSE DONE
        S2 == IF r \in DOMAIN S1.rules
                THEN [S1 EXCEPT !.rules[r] = [status |-> status, owner |-> NULL]]
                ELSE S1
        S3 == IF IsTransient(r) THEN S2
              ELSE [S2 EXCEPT !.rules_to_build = Delete(@, {r})]
        S4 == IF is_wildcard(r)
                THEN TagRealised(S3, p, {lr[1] : lr \in {x \in S3.labels_to_rules : x[2] = r}})
                ELSE S3
    IN  IF ~is_wildcard(r) /\ label_wild_rules_done(S4, r) THEN set_tag(S4, p, r) ELSE S4

\* ------------------------------------------------------ processes table
\* T is the processes table; a process is its (pid, uuid) pair
NewProcess == [master |-> FALSE, pause_requested_by |-> NULL, paused |-> FALSE]
register_process(T, p) == Replace(T, p, NewProcess)
deregister_process(T, p) == Delete(T, {p})
is_master(T, p) == p \in DOMAIN T /\ T[p].master
other_processes_exist(T, p) == \E q \in DOMAIN T : q # p
\* (mutant) the UPDATE without "not exists (select master ...)"
attempt_set_master_always(T, p) ==
    IF p \in DOMAIN T THEN [T EXCEPT ![p].master = TRUE] ELSE T
attempt_set_master(T, p) ==
    IF p \in DOMAIN T /\ ~\E q \in DOMAIN T : T[q].master
        THEN [T EXCEPT ![p].master = TRUE]
        ELSE T
\* request_pause_others and release_pause_request raise MuddleBug, and
\* change nothing, when the caller is not the master
request_pause_others(T, p) ==
    IF ~is_master(T, p) THEN T
    ELSE [q \in DOMAIN T |->
            IF q # p /\ T[q].pause_requested_by = NULL
                THEN [T[q] EXCEPT !.pause_requested_by = p] ELSE T[q]]
release_pause_request(T, p) ==
    IF ~is_master(T, p) THEN T
    ELSE [q \in DOMAIN T |->
            IF q # p /\ T[q].pause_requested_by = p
                THEN [T[q] EXCEPT !.pause_requested_by = NULL] ELSE T[q]]
are_others_paused(T, p) == \E q \in DOMAIN T : q # p /\ T[q].paused
pause(T, p) ==
    IF p \in DOMAIN T /\ T[p].pause_requested_by # NULL
        THEN [T EXCEPT ![p].paused = TRUE] ELSE T
\* (mutant) the UPDATE without "AND pause_requested_by IS NULL"
unpause_always(T, p) ==
    IF p \in DOMAIN T THEN [T EXCEPT ![p].paused = FALSE] ELSE T
unpause(T, p) ==
    IF p \in DOMAIN T /\ T[p].pause_requested_by = NULL
        THEN [T EXCEPT ![p].paused = FALSE] ELSE T
is_paused(T, p) == p \in DOMAIN T /\ ~T[p].paused
is_pause_requested(T, p) == p \in DOMAIN T /\ T[p].pause_requested_by # NULL

\* ---------------------------------------------------------------- inputs
\* acyclic rule sets: a rule depends only on labels of lower number; at most
\* one label is special (transient, master-only, or matched by the wildcard)
DepGraphs == {d \in [Labels -> SUBSET Labels] : \A l \in Labels : d[l] \subseteq 1..(l - 1)}
RuleSets ==
    {rs \in [deps : DepGraphs, transient : SUBSET Labels, master : SUBSET Labels, wild : SUBSET Labels] :
        Cardinality(rs.transient) + Cardinality(rs.master) + Cardinality(rs.wild) <= 1}
Targets == {NumLabels}
NoRule == NumLabels + 1

Init ==
    /\ ruleset \in RuleSets
    /\ db = EmptyDb
    /\ processes = EmptyTable
    /\ pc = [p \in Procs |-> "out"]
    /\ cand = [p \in Procs |-> NoRule]
    /\ args = NoCall /\ result = NoCall

\* ------------------------------------------------------ the scheduler loop
Goto(p, where) == pc' = [pc EXCEPT ![p] = where]
Holds(p) == pc[p] \in {"running", "m_wait", "m_release", "resumed"}

\* the first process loads the rules and the frontier into the empty database
Load(p) ==
    /\ pc[p] = "out" /\ DOMAIN db.rules = {} /\ DOMAIN processes = {}
    /\ db' = set_rules(db, p, ruleset, Targets)
    /\ UNCHANGED <<args, result, ruleset, processes, pc, cand>>

Start(p) ==
    /\ pc[p] = "out" /\ DOMAIN db.rules # {}
    /\ processes' = register_process(processes, p)
    /\ Goto(p, "top")
    /\ UNCHANGED <<args, result, ruleset, db, cand>>

Elect(p) ==
    /\ pc[p] = "top"
    /\ processes' = attempt_set_master(processes, p)
    /\ Goto(p, "poll")
    /\ UNCHANGED <<args, result, ruleset, db, cand>>

Poll(p) ==
    /\ pc[p] = "poll"
    /\ Goto(p, IF is_pause_requested(processes, p) THEN "pausing" ELSE "select")
    /\ UNCHANGED <<args, result, ruleset, db, processes, cand>>

Pause(p) ==
    /\ pc[p] = "pausing"
    /\ processes' = pause(processes, p)
    /\ Goto(p, "waiting")
    /\ UNCHANGED <<args, result, ruleset, db, cand>>

Resume(p) ==
    /\ pc[p] = "waiting" /\ ~is_pause_requested(processes, p)
    /\ Goto(p, "unpausing")
    /\ UNCHANGED <<args, result, ruleset, db, processes, cand>>

Unpause(p) ==
    /\ pc[p] = "unpausing"
    /\ processes' = unpause(processes, p)
    /\ Goto(p, "select")
    /\ UNCHANGED <<args, result, ruleset, db, cand>>

Select(p) ==
    /\ pc[p] = "select"
    /\ LET found == get_satisfied_rule(db, p, FALSE, FALSE)
       IN  IF found # {}
             THEN \E r \in found : cand' = [cand EXCEPT ![p] = r] /\ Goto(p, "claim")
             ELSE /\ Goto(p, IF is_master(processes, p) THEN "select_master" ELSE "idle")
                  /\ cand' = cand
    /\ UNCHANGED <<args, result, ruleset, db, processes>>

SelectMaster(p) ==
    /\ pc[p] = "select_master"
    /\ LET found == get_satisfied_rule(db, p, TRUE, TRUE)
       IN  IF found # {}
             THEN \E r \in found : cand' = [cand EXCEPT ![p] = r] /\ Goto(p, "claim")
             ELSE Goto(p, "idle") /\ cand' = cand
    /\ UNCHANGED <<args, result, ruleset, db, processes>>

ClaimUpdate(p) ==
    /\ pc[p] = "claim"
    /\ db' = set_rule_processing_update(db, p, cand[p])
    /\ Goto(p, "claim_result")
    /\ UNCHANGED <<args, result, ruleset, processes, cand>>

ClaimResult(p) ==
    /\ pc[p] = "claim_result"
    /\ IF set_rule_processing_result(db, p, cand[p])
         THEN Goto(p, "running") /\ cand' = cand
         ELSE Goto(p, "top") /\ cand' = cand
    /\ UNCHANGED <<args, result, ruleset, db, processes>>

Finish(p) ==
    /\ pc[p] \in {"running", "resumed"}
    /\ db' = set_rule_done(db, p, cand[p])
    /\ Goto(p, "top")
    /\ cand' = [cand EXCEPT ![p] = NoRule]
    /\ UNCHANGED <<args, result, ruleset, processes>>

Fail(p) ==
    /\ pc[p] \in {"running", "resumed"}
    /\ db' = set_rule_clear(db, p, cand[p])
    /\ Goto(p, "failed")
    /\ UNCHANGED <<args, result, ruleset, processes, cand>>

Idle(p) ==
    /\ pc[p] = "idle"
    /\ Goto(p, IF \E r \in DOMAIN db.rules :
                     db.rules[r].status = PROCESSING /\ db.rules[r].owner # p
                 THEN "top" ELSE "leaving")
    /\ UNCHANGED <<args, result, ruleset, db, processes, cand>>

Leave(p) ==
    /\ pc[p] \in {"leaving", "failed"}
    /\ processes' = deregister_process(processes, p)
    /\ db' = [db EXCEPT !.local_tags[p] = {}, !.local_rules[p] = {}]
    /\ Goto(p, "gone")
    /\ cand' = [cand EXCEPT ![p] = NoRule]
    /\ UNCHANGED <<args, result, ruleset>>

\* the master, inside an action, pauses the others, works, and lets them go
RequestPause(p) ==
    /\ pc[p] = "running" /\ is_master(processes, p)
    /\ processes' = request_pause_others(processes, p)
    /\ Goto(p, "m_wait")
    /\ UNCHANGED <<args, result, ruleset, db, cand>>

AwaitPaused(p) ==
    /\ pc[p] = "m_wait" /\ are_others_paused(processes, p)
    /\ Goto(p, "m_release")
    /\ UNCHANGED <<args, result, ruleset, db, processes, cand>>

ReleasePause(p) ==
    /\ pc[p] = "m_release"
    /\ processes' = release_pause_request(processes, p)
    /\ Goto(p, "resumed")
    /\ UNCHANGED <<args, result, ruleset, db, cand>>

\* another muddle command clears a persistent tag
ClearTag(l) ==
    /\ ~IsTransient(l) /\ is_tag_done(db, NumProcs, l)
    /\ db' = clear_tag(db, NumProcs, l)
    /\ UNCHANGED <<args, result, ruleset, processes, pc, cand>>

Worker(p) ==
    \/ Load(p) \/ Start(p) \/ Elect(p) \/ Poll(p) \/ Pause(p) \/ Resume(p) \/ Unpause(p)
    \/ Select(p) \/ SelectMaster(p) \/ ClaimUpdate(p) \/ ClaimResult(p)
    \/ Finish(p) \/ Fail(p) \/ Idle(p) \/ Leave(p)
    \/ RequestPause(p) \/ AwaitPaused(p) \/ ReleasePause(p)

Next == (\E p \in Workers : Worker(p)) \/ (\E l \in Labels : ClearTag(l))

Spec == Init /\ [][Next]_vars

\* ================================================================== claims
Status(r) == db.rules[r].status
Owner(r) == db.rules[r].owner
\* the workers between a successful claim of r and its release
Holders(r) == {p \in Workers : Holds(p) /\ cand[p] = r}

\* C1: under any interleaving of workers that follow the scheduler loop, a
\* rule row in processing has exactly one owner, that owner is the only
\* worker between a successful claim of the rule and its release, and no two
\* workers are in that interval for the same rule at once.
C1_OneOwner ==
    \A r \in DOMAIN db.rules :
        /\ Cardinality(Holders(r)) <= 1
        /\ Status(r) = PROCESSING => Owner(r) \in DOMAIN processes /\ Holders(r) \subseteq {Owner(r)}
        /\ Holders(r) # {} => Status(r) = PROCESSING /\ Owner(r) \in Holders(r)
\* a worker runs a rule while another worker, which chose the same rule, has
\* made its claim and is about to read that it failed
C1_Witness ==
    \E r \in DOMAIN db.rules : \E p, q \in Workers :
        /\ p # q /\ pc[p] = "running" /\ cand[p] = r
        /\ pc[q] = "claim_result" /\ cand[q] = r /\ Owner(r) = p

\* ------------------------------------------------------------------
\* Workers that race for rules and never release one: the calls of
\* set_rule_processing alone, in every order and interleaving.
ClaimOnly(p) ==
    \/ Load(p) \/ Start(p) \/ Elect(p) \/ Poll(p)
    \/ Select(p) \/ SelectMaster(p) \/ ClaimUpdate(p) \/ ClaimResult(p)
    \/ Idle(p) \/ Leave(p)
RaceNext == \E p \in Workers : ClaimOnly(p)
RaceSpec == Init /\ [][RaceNext]_vars

\* the workers that have called set_rule_processing(r) / whose call returned
Callers(r) == {p \in Workers : cand[p] = r /\ pc[p] # "claim" /\ pc[p] # "select"}
Returned(r) == {p \in Callers(r) : pc[p] # "claim_result"}
C2_State ==
    \A r \in DOMAIN db.rules :
        (Cardinality(Callers(r)) >= 2 /\ Returned(r) = Callers(r)) =>
            /\ Cardinality({p \in Returned(r) : Holds(p)}) = 1
            /\ \A q \in Returned(r) : ~Holds(q) =>
                  /\ Owner(r) # q /\ Owner(r) \in Returned(r) /\ Holds(Owner(r))
                  /\ ~is_rule_clear(db, q, r)
C2_LoserStep ==
    \A q \in Workers :
        (pc[q] = "claim" /\ pc'[q] = "claim_result" /\ ~RuleRowIs(db, cand[q], CLEAR))
            => db'.rules = db.rules
\* C2: when two (or more) registered workers call set_rule_processing(R) on a
\* rule R that was clear, in any order or interleaved, then once the calls have
\* returned exactly one of them returned true; each other call returned false,
\* left R's row (status and owner) as the winner set it, and its caller sees
\* is_rule_clear(R) = false.
C2_ExactlyOneClaim == [][C2_State' /\ C2_LoserStep]_vars
\* two workers called for the same rule; one runs it, the other is back at
\* the top of its loop
C2_Witness ==
    \E r \in DOMAIN db.rules : \E p, q \in Workers :
        /\ p # q /\ cand[p] = r /\ cand[q] = r
        /\ pc[p] = "running" /\ pc[q] = "top"

\* C3: a rule is never moved to processing while one of its non-transient
\* dependency labels is not done (the claim itself repeats the dependency
\* check, so a clear_tag between get_satisfied_rule and set_rule_processing
\* makes the claim fail).
NonTransientDepsDone(S, r) ==
    \A d \in RuleDeps(ruleset, r) : ~IsTransient(d) => (d \in DOMAIN S.labels /\ S.labels[d].done)
C3_ClaimChecksDeps ==
    [][\A r \in DOMAIN db.rules :
          (Status(r) # PROCESSING /\ r \in DOMAIN db'.rules /\ db'.rules[r].status = PROCESSING)
              => NonTransientDepsDone(db, r)]_vars

\* ------------------------------------------------------------------
\* The processes table under every interleaving of its methods, called by
\* any process; a process may also die without deregistering.
PlainRuleSet == [deps |-> [l \in Labels |-> {}], transient |-> {}, master |-> {}, wild |-> {}]
ProcInit ==
    /\ ruleset = PlainRuleSet
    /\ db = EmptyDb
    /\ processes = EmptyTable
    /\ pc = [p \in Procs |-> "out"]
    /\ cand = [p \in Procs |-> NoRule]
    /\ args = NoCall /\ result = NoCall

CallRegister(p) ==
    /\ pc[p] = "out"
    /\ processes' = register_process(processes, p)
    /\ Goto(p, "up")
    /\ UNCHANGED <<args, result, ruleset, db, cand>>
CallDeregister(p) ==
    /\ pc[p] = "up"
    /\ processes' = deregister_process(processes, p)
    /\ Goto(p, "out")
    /\ UNCHANGED <<args, result, ruleset, db, cand>>
Crash(p) ==
    /\ pc[p] = "up"
    /\ Goto(p, "dead")
    /\ UNCHANGED <<args, result, ruleset, db, processes, cand>>
CallAttemptSetMaster(p) ==
    /\ pc[p] = "up"
    /\ processes' = attempt_set_master(processes, p)
    /\ UNCHANGED <<args, result, ruleset, db, pc, cand>>
CallRequestPause(p) ==
    /\ pc[p] = "up"
    /\ processes' = request_pause_others(processes, p)
    /\ UNCHANGED <<args, result, ruleset, db, pc, cand>>
CallReleasePause(p) ==
    /\ pc[p] = "up"
    /\ processes' = release_pause_request(processes, p)
    /\ UNCHANGED <<args, result, ruleset, db, pc, cand>>
CallPause(p) ==
    /\ pc[p] = "up"
    /\ processes' = pause(processes, p)
    /\ UNCHANGED <<args, result, ruleset, db, pc, cand>>
CallUnpause(p) ==
    /\ pc[p] = "up"
    /\ processes' = unpause(processes, p)
    /\ UNCHANGED <<args, result, ruleset, db, pc, cand>>

ProcCall(p) ==
    \/ CallRegister(p) \/ CallDeregister(p) \/ Crash(p) \/ CallAttemptSetMaster(p)
    \/ CallRequestPause(p) \/ CallReleasePause(p) \/ CallPause(p) \/ CallUnpause(p)
ProcNext == \E p \in Procs : ProcCall(p)
ProcSpec == ProcInit /\ [][ProcNext]_vars

Masters == {p \in DOMAIN processes : processes[p].master}

\* C4: in every state reachable by any interleaving of register_process,
\* attempt_set_master and deregister_process (and the pause methods) by any
\* number of processes, at most one row of processes has master=1.
C4_AtMostOneMaster == Cardinality(Masters) <= 1
\* a master exists while another registered process has just attempted the
\* claim and stayed a worker
C4_Witness ==
    \E p, q \in DOMAIN processes :
        /\ p # q /\ processes[p].master /\ ~processes[q].master
        /\ attempt_set_master(processes, q) = processes

\* C5: are_others_paused() returns true to the master only when every other
\* registered process has paused=1.
C5_AllOthersPaused ==
    \A p \in DOMAIN processes :
        (is_master(processes, p) /\ are_others_paused(processes, p))
            => \A q \in DOMAIN processes \ {p} : processes[q].paused

\* C10: attempt_set_master promotes the calling registered process to master
\* if and only if no row has master=1 at that moment, and otherwise changes no
\* row; in particular once the master is lost (it has exited or crashed) the
\* next live process that calls attempt_set_master becomes master.
Live(p) == pc[p] = "up"
C10_ElectionIff ==
    \A p \in DOMAIN processes :
        IF Masters = {}
            THEN attempt_set_master(processes, p) = [processes EXCEPT ![p].master = TRUE]
            ELSE attempt_set_master(processes, p) = processes
C10_MasterRepaired ==
    /\ C10_ElectionIff
    /\ \A p \in DOMAIN processes :
          (Live(p) /\ ~\E q \in Procs : Live(q) /\ is_master(processes, q))
              => is_master(attempt_set_master(processes, p), p)

\* ------------------------------------------------------------------
\* A build whose actions all succeed, scheduled fairly: every process that
\* can take a step eventually takes one.  BuildSpec leaves the pause
\* protocol out; PauseSpec has the master pause the others inside its actions.
BuildStep(p) ==
    \/ Load(p) \/ Start(p) \/ Elect(p) \/ Poll(p)
    \/ Select(p) \/ SelectMaster(p) \/ ClaimUpdate(p) \/ ClaimResult(p)
    \/ Finish(p) \/ Idle(p) \/ Leave(p)
BuildNext == \E p \in Workers : BuildStep(p)
BuildSpec == Init /\ [][BuildNext]_vars /\ \A p \in Workers : WF_vars(BuildStep(p))

PauseStep(p) ==
    \/ BuildStep(p)
    \/ Pause(p) \/ Resume(p) \/ Unpause(p)
    \/ RequestPause(p) \/ AwaitPaused(p) \/ ReleasePause(p)
PauseNext == \E p \in Workers : PauseStep(p)
PauseSpec == Init /\ [][PauseNext]_vars /\ \A p \in Workers : WF_vars(PauseStep(p))

Requested(p) == p \in DOMAIN processes /\ processes[p].pause_requested_by # NULL
Paused(p) == p \in DOMAIN processes /\ processes[p].paused
\* the step in which p's claim of its candidate succeeds / p starts to run it
ClaimsStep(p) == pc[p] = "claim" /\ pc'[p] = "claim_result" /\ RuleRowIs(db, cand[p], CLEAR)
StartsStep(p) == pc[p] = "claim_result" /\ pc'[p] = "running"

\* C6: once the master has called request_pause_others, every other
\* registered worker sets paused=1 before it starts executing another rule,
\* and while its pause_requested_by is set it neither claims a rule nor clears
\* its paused flag.
C6_PausedBeforeNextRule ==
    [][\A p \in Workers : Requested(p) =>
          /\ ~ClaimsStep(p)
          /\ ~StartsStep(p)
          /\ (Paused(p) /\ p \in DOMAIN processes') => processes'[p].paused]_vars

\* C6 as amended: a worker whose poll finds the request goes on to pause(),
\* which sets paused=1 if the request is still there, and it neither claims
\* nor starts a rule until a later poll finds the request cleared; while a
\* worker's pause_requested_by is set its paused flag is never cleared.
C6_PausedAfterPoll ==
    [][\A p \in Workers :
          /\ (Requested(p) /\ pc[p] = "poll" /\ pc'[p] # "poll") => pc'[p] = "pausing"
          /\ (Requested(p) /\ pc[p] = "pausing" /\ pc'[p] # "pausing") => Paused(p)'
          /\ (Requested(p) /\ pc[p] = "waiting") => pc'[p] = "waiting"
          /\ pc[p] \in {"pausing", "waiting"} => ~ClaimsStep(p) /\ ~StartsStep(p)
          /\ (Requested(p) /\ Paused(p) /\ p \in DOMAIN processes') => processes'[p].paused]_vars
\* the master waits with its request out; a worker has paused and then
\* called unpause, which left paused=1
C6_Witness ==
    \E m, p \in Workers :
        /\ pc[m] = "m_wait" /\ Requested(p) /\ Paused(p)
        /\ processes[p].pause_requested_by = m
        /\ pc[p] \in {"select", "claim"}

\* ------------------------------------------------------------------
\* The tag and rule methods called freely: any process that has opened the
\* database calls set_ruleset, set_tag, clear_tag and set_rule_done in any
\* order; a process that exits and starts again has a new Database object.
ApiOpen(p) ==
    /\ pc[p] = "out"
    /\ db' = [db EXCEPT !.local_tags[p] = {}, !.local_rules[p] = {}]
    /\ pc' = [pc EXCEPT ![p] = "up"]
    /\ UNCHANGED <<args, result, ruleset, processes, cand>>
ApiExit(p) ==
    /\ pc[p] = "up"
    /\ pc' = [pc EXCEPT ![p] = "out"]
    /\ UNCHANGED <<args, result, ruleset, db, processes, cand>>
ApiSetRuleset(p) ==
    /\ pc[p] = "up"
    /\ db' = set_ruleset(db, ruleset)
    /\ UNCHANGED <<args, result, ruleset, processes, pc, cand>>
ApiSetTag(p, l) ==
    /\ pc[p] = "up"
    /\ db' = set_tag(db, p, l)
    /\ UNCHANGED <<args, result, ruleset, processes, pc, cand>>
ApiClearTag(p, l) ==
    /\ pc[p] = "up"
    /\ db' = clear_tag(db, p, l)
    /\ UNCHANGED <<args, result, ruleset, processes, pc, cand>>
ApiSetRuleDone(p, r) ==
    /\ pc[p] = "up"
    /\ db' = set_rule_done(db, p, r)
    /\ UNCHANGED <<args, result, ruleset, processes, pc, cand>>
ApiNext ==
    \E p \in Workers :
        \/ ApiOpen(p) \/ ApiExit(p) \/ ApiSetRuleset(p)
        \/ \E l \in Labels : ApiSetTag(p, l) \/ ApiClearTag(p, l)
        \/ \E r \in RuleTargets(ruleset) : ApiSetRuleDone(p, r)
ApiSpec == Init /\ [][ApiNext]_vars

\* C7: after any sequence of set_tag, clear_tag, set_rule_done and
\* set_ruleset calls by any processes, no labels row of a transient label has
\* done=true; a call changes what is_tag_done says of a transient label for
\* at most one process (the caller), and a process that starts after another
\* has exited finds no transient label done.
C7_TransientOnlyLocal ==
    [][\A l \in Labels : IsTransient(l) =>
          /\ ~(l \in DOMAIN db'.labels /\ db'.labels[l].done)
          /\ Cardinality({q \in Procs : is_tag_done(db, q, l) # is_tag_done(db', q, l)}) <= 1
          /\ \A q \in Procs : (pc[q] = "out" /\ pc'[q] = "up") => ~is_tag_done(db', q, l)]_vars
\* one process has a transient label done, another open process does not,
\* and the label's row is in the labels table
C7_Witness ==
    \E p, q \in Procs : \E l \in Labels :
        /\ IsTransient(l) /\ p # q /\ pc[p] = "up" /\ pc[q] = "up"
        /\ is_tag_done(db, p, l) /\ ~is_tag_done(db, q, l)
        /\ l \in DOMAIN db.labels /\ ~db.labels[l].done

\* C8: for an acyclic rule set whose actions all succeed, with workers
\* running the scheduler loop under fair scheduling: every worker eventually
\* exits; a worker decides to exit only when no candidate rule is runnable
\* and no other process holds a rule in processing; and when the last worker
\* has exited every non-transient rule placed in rules_to_build is done.
Placed == needed_to_build_labels(ruleset, Targets)
AllGone == \A p \in Workers : pc[p] = "gone"
C8_AllExit == <>[]AllGone
C8_ExitOnlyWhenIdle ==
    [][\A p \in Workers : (pc[p] = "idle" /\ pc'[p] = "leaving") =>
          /\ get_satisfied_rule(db, p, is_master(processes, p), FALSE) = {}
          /\ ~\E r \in DOMAIN db.rules : Status(r) = PROCESSING /\ Owner(r) # p]_vars
C8_AllBuilt ==
    AllGone => \A r \in Placed : ~IsTransient(r) => RuleRowIs(db, r, DONE)

\* C9: after the master calls release_pause_request, every worker it had
\* paused eventually observes is_pause_requested() = false, clears its paused
\* flag with unpause, and resumes claiming rules.
C9_ResumeAfterRelease ==
    \A p \in Workers :
        (Paused(p) /\ ~Requested(p) /\ pc[p] = "waiting")
            ~> (~Paused(p) /\ pc[p] = "select")

\* C11: get_satisfied_rule never returns a rule whose action requires the
\* master to a caller with allow_master=false, so a worker that is not the
\* master never claims or runs such a rule; with allow_master=true and
\* req_master=true it returns only master-requiring rules.
C11_MasterRulesForMaster ==
    \A p \in Workers :
        /\ \A r \in get_satisfied_rule(db, p, FALSE, FALSE) : ~RequiresMaster(ruleset, r)
        /\ \A r \in get_satisfied_rule(db, p, TRUE, TRUE) : RequiresMaster(ruleset, r)
        /\ (pc[p] \in {"claim", "claim_result"} \/ Holds(p)) /\ RequiresMaster(ruleset, cand[p])
              => is_master(processes, p)
\* a worker that is not the master asks for a rule while a master-requiring
\* rule is in rules_to_build, clear, with its dependencies done
C11_Witness ==
    \E p \in Workers : \E r \in get_satisfied_rule(db, p, TRUE, FALSE) :
        /\ pc[p] = "select" /\ ~is_master(processes, p)
        /\ RequiresMaster(ruleset, r)

\* C12: when a rule's action fails (or the worker is cancelled),
\* set_rule_clear returns the rule to status clear with the owner columns
\* NULL and leaves it in rules_to_build, so the rule is not left in
\* processing and any worker, the same or another, can claim it again.
C12_FailedRuleClaimable ==
    [][\A p \in Workers : (pc[p] \in {"running", "resumed"} /\ pc'[p] = "failed") =>
          LET r == cand[p] IN
          /\ RuleRowIs(db', r, CLEAR) /\ db'.rules[r].owner = NULL
          /\ r \in DOMAIN db'.rules_to_build
          /\ \A q \in Workers :
                set_rule_processing_result(set_rule_processing_update(db', q, r), q, r)]_vars
\* a worker's action has failed and another worker has claimed the same rule
C12_Witness ==
    \E p, q \in Workers :
        /\ p # q /\ pc[p] = "failed" /\ Holds(q) /\ cand[q] = cand[p]
        /\ Status(cand[q]) = PROCESSING /\ Owner(cand[q]) = q

\* ------------------------------------------------------------------
\* depend.needed_to_build(ruleset, target): the rules are collected in
\* rounds.  In a round every rule for a wanted label whose dependencies
\* already have their rules in the list is appended (in label order), and
\* the dependencies of the others become wanted.
Range(seq) == {seq[i] : i \in DOMAIN seq}
RECURSIVE SortedSeq(_)
SortedSeq(set) ==
    IF set = {} THEN <<>>
    ELSE LET m == CHOOSE x \in set : \A y \in set : x <= y
         IN  <<m>> \o SortedSeq(set \ {m})
\* (mutant) a round appends every rule for a wanted label, ready or not
NeededReady_all(rs, have, rules) == rules \ have
NeededReady(rs, have, rules) == {r \in rules \ have : RuleDeps(rs, r) \subseteq have}
RECURSIVE NeededRounds(_, _, _, _)
NeededRounds(rs, out, want, n) ==
    IF want = {} \/ n = 0 THEN out
    ELSE LET have == Range(out)
             rules == UNION {rules_for_target(rs, t) : t \in want}
             ready == NeededReady(rs, have, rules)
             blocked == (rules \ have) \ ready
             out2 == out \o SortedSeq(ready)
             want2 == {t \in want \cup UNION {RuleDeps(rs, r) : r \in blocked} :
                          ~(rules_for_target(rs, t) \subseteq Range(out2))}
         IN  NeededRounds(rs, out2, want2, n - 1)
needed_to_build(rs, target) ==
    NeededRounds(rs, <<>>, {target}, 2 * Cardinality(RuleTargets(rs)) + 1)

\* the rule set of depend_unit_test: L2 on L1, L3 on L2, L4 on L3 and L2
TestRuleSet == [deps |-> <<{}, {1}, {2}, {2, 3}>>, transient |-> {}, master |-> {}, wild |-> {}]

DependInit ==
    /\ ruleset \in RuleSets \cup {TestRuleSet}
    /\ db = EmptyDb
    /\ processes = EmptyTable
    /\ pc = [p \in Procs |-> "out"]
    /\ cand = [p \in Procs |-> NoRule]
    /\ args = NoCall /\ result = NoCall
CallNeededToBuild(t) ==
    /\ args = NoCall
    /\ args' = <<t>>
    /\ result' = needed_to_build(ruleset, t)
    /\ UNCHANGED <<ruleset, db, processes, pc, cand>>
DependNext == \E t \in DOMAIN ruleset.deps : CallNeededToBuild(t)
DependSpec == DependInit /\ [][DependNext]_vars

\* C13: for every acyclic rule set and target T, needed_to_build returns each
\* rule whose target is T or a transitive dependency of T exactly once, every
\* rule after all the rules for its dependencies, with T's rule last; for the
\* rules L2 on L1, L3 on L2, L4 on {L3, L2} the order for L4 is [L1, L2, L3, L4].
C13_TopologicalOrder ==
    args # NoCall =>
        LET t == args[1]
            n == Len(result)
        IN  /\ Cardinality(Range(result)) = n
            /\ Range(result) = needed_to_build_labels(ruleset, {t})
            /\ \A i \in 1..n : \A d \in RuleDeps(ruleset, result[i]) :
                  \A r \in rules_for_target(ruleset, d) : \E j \in 1..(i - 1) : result[j] = r
            /\ n > 0 /\ result[n] = t
            /\ (ruleset = TestRuleSet /\ t = 4) => result = <<1, 2, 3, 4>>
\* the call for L4 of the unit test's rule set has returned
C13_Witness ==
    args = <<4>> /\ ruleset = TestRuleSet /\ Len(result) = 4

\* ------------------------------------------------------------------
\* Label.match(other).  A label is <<type, name, role, tag>>; a field is a
\* name or the wildcard "*".  The fields are compared in turn: a wildcard on
\* either side counts one against the score, two different names end the
\* comparison with None.
FieldValues == {"*", "x", "y"}
LabelValues == [1..4 -> FieldValues]
\* Python's None, apart from every score (scores are 0 or negative)
None == 1
\* (mutant) only the wildcards of the label match is called on are counted
match_field_self_only(a, b, i) ==
    IF a[i] = "*" THEN -1
    ELSE IF b[i] = "*" THEN 0
    ELSE IF a[i] = b[i] THEN 0 ELSE None
match_field(a, b, i) ==
    IF a[i] = "*" \/ b[i] = "*" THEN -1
    ELSE IF a[i] = b[i] THEN 0 ELSE None
RECURSIVE match_from(_, _, _, _)
match_from(a, b, i, score) ==
    IF i > 4 THEN score
    ELSE LET f == match_field(a, b, i)
         IN  IF f = None THEN None ELSE match_from(a, b, i + 1, score + f)
match(a, b) == match_from(a, b, 1, 0)

\* the labels of depend_unit_test: l1, l2 (another tag), and l1 with
\* wildcards in the type (la1), in name and role (la3), in the tag (la4)
Test_l1 == <<"x", "x", "x", "x">>
Test_l2 == <<"x", "x", "x", "y">>
Test_la1 == <<"*", "x", "x", "x">>
Test_la3 == <<"x", "*", "*", "x">>
Test_la4 == <<"x", "x", "x", "*">>

MatchInit ==
    /\ ruleset = PlainRuleSet
    /\ db = EmptyDb
    /\ processes = EmptyTable
    /\ pc = [p \in Procs |-> "out"]
    /\ cand = [p \in Procs |-> NoRule]
    /\ args = NoCall /\ result = NoCall
CallMatch(a, b) ==
    /\ args = NoCall
    /\ args' = <<a, b>>
    /\ result' = <<match(a, b), match(b, a)>>
    /\ UNCHANGED <<ruleset, db, processes, pc, cand>>
MatchNext ==
    /\ args = NoCall
    /\ \E a, b \in LabelValues : CallMatch(a, b)
MatchSpec == MatchInit /\ [][MatchNext]_vars

Repos == {"r1", "r2"}
UpRepos == {"u1", "u2"}
NameSets == {{"a"}, {"a", "b"}}
UpstreamDicts == UNION {[D -> NameSets] : D \in (SUBSET UpRepos) \ {{}}}
UpstreamTables == UNION {[D -> UpstreamDicts] : D \in SUBSET Repos}
BuildDbs == [upstreams : UpstreamTables, checkouts : SUBSET Repos]
\* the orders in which a dictionary over Repos may be walked
RepoOrders == {<<"r1", "r2">>, <<"r2", "r1">>}

\* checkout_data.update(other_db.checkout_data)
merge_subdomain_labels(P, S) == [P EXCEPT !.checkouts = @ \cup S.checkouts]
\* the exception _subdomain_new_upstream ends with: its first statement looks
\* orig_repo up in self.upstream_repositories, a plain dict
subdomain_new_upstream(P, S, repo) ==
    IF repo \in DOMAIN P.upstreams THEN "GiveUp" ELSE "KeyError"
\* one turn of the loop over other_db.upstream_repositories
merge_upstreams_of(P, S, repo, already_got) ==
    IF repo \in DOMAIN P.upstreams
        THEN IF DOMAIN S.upstreams[repo] \subseteq DOMAIN P.upstreams[repo]
                THEN [raised |-> "",
                      db |-> [P EXCEPT !.upstreams[repo] =
                                [u \in DOMAIN @ |->
                                    IF u \in DOMAIN S.upstreams[repo]
                                        THEN @[u] \cup S.upstreams[repo][u] ELSE @[u]]]]
                ELSE [raised |-> subdomain_new_upstream(P, S, repo), db |-> P]
    ELSE IF repo \in already_got
        THEN [raised |-> subdomain_new_upstream(P, S, repo), db |-> P]
    ELSE [raised |-> "",
          db |-> [P EXCEPT !.upstreams =
                    [r \in DOMAIN @ \cup {repo} |-> IF r = repo THEN S.upstreams[repo] ELSE @[r]]]]
RECURSIVE merge_subdomain_upstreams(_, _, _, _, _)
merge_subdomain_upstreams(P, S, order, i, already_got) ==
    IF i > Len(order) THEN [raised |-> "", db |-> P]
    ELSE IF order[i] \notin DOMAIN S.upstreams
        THEN merge_subdomain_upstreams(P, S, order, i + 1, already_got)
    ELSE LET one == merge_upstreams_of(P, S, order[i], already_got)
         IN  IF one.raised # "" THEN [raised |-> one.raised]
             ELSE merge_subdomain_upstreams(one.db, S, order, i + 1, already_got)
\* include_domain: the labels are merged first, then the upstreams; what an
\* exception leaves half merged is not kept in the result
include_domain(P, S, order) ==
    LET P1 == merge_subdomain_labels(P, S)
    IN  merge_subdomain_upstreams(P1, S, order, 1, P1.checkouts)

IncludeInit ==
    /\ ruleset = PlainRuleSet
    /\ db = EmptyDb
    /\ processes = EmptyTable
    /\ pc = [p \in Procs |-> "out"]
    /\ cand = [p \in Procs |-> NoRule]
    /\ args = NoCall /\ result = NoCall
CallIncludeDomain(P, S, order) ==
    /\ args = NoCall
    /\ args' = <<P, S>>
    /\ result' = include_domain(P, S, order)
    /\ UNCHANGED <<ruleset, db, processes, pc, cand>>
IncludeNext ==
    /\ args = NoCall
    /\ \E P, S \in BuildDbs : \E order \in RepoOrders : CallIncludeDomain(P, S, order)
IncludeSpec == IncludeInit /\ [][IncludeNext]_vars

\* C15: include_domain raises GiveUp whenever the subdomain's upstream table
\* adds an upstream for a repository the parent already uses: both when the
\* parent has an upstream entry for that repository lacking this upstream,
\* and when the parent has a checkout on that repository with no upstream
\* entry at all.
C15_NewUpstreamGivesUp ==
    args # NoCall =>
        LET P == args[1]
            S == args[2]
        IN  (\E repo \in DOMAIN S.upstreams :
                \/ /\ repo \in DOMAIN P.upstreams
                   /\ ~(DOMAIN S.upstreams[repo] \subseteq DOMAIN P.upstreams[repo])
                \/ /\ repo \notin DOMAIN P.upstreams
                   /\ repo \in P.checkouts)
            => result.raised = "GiveUp"

\* ------------------------------------------------------------------
\* The pull, push and merge commands: with_build_tree walks the selected
\* checkouts; outcomes[i] is what build_label does for the i-th of them.
\* Unsupported is a subclass of GiveUp, and only pull has a handler for it.
Commands == {"pull", "push", "merge"}
Outcomes == {"ok", "GiveUp", "Unsupported"}
OutcomeLists == UNION {[1..n -> Outcomes] : n \in 0..MaxCheckouts}
\* (mutant) the handler re-raises whether or not -stop was given
handle_raise_always(cmd, stop_on_problem, outcome) ==
    IF outcome = "ok" THEN "ok"
    ELSE IF cmd = "pull" /\ outcome = "Unsupported" THEN "not_needed"
    ELSE "raise"
\* what the try statement around build_label does with one outcome
handle(cmd, stop_on_problem, outcome) ==
    IF outcome = "ok" THEN "ok"
    ELSE IF cmd = "pull" /\ outcome = "Unsupported" THEN "not_needed"
    ELSE IF stop_on_problem THEN "raise"
    ELSE "problem"
RECURSIVE with_build_tree_from(_, _, _, _, _)
with_build_tree_from(cmd, stop_on_problem, outcomes, i, st) ==
    IF i > Len(outcomes)
        THEN [st EXCEPT !.reported =
                (IF cmd = "pull" /\ st.not_needed # <<>> THEN st.problems ELSE <<>>) \o st.problems]
    ELSE LET h == handle(cmd, stop_on_problem, outcomes[i])
             st1 == [st EXCEPT !.attempted = @ \cup {i}]
         IN  IF h = "raise" THEN [st1 EXCEPT !.raised = i]
             ELSE with_build_tree_from(cmd, stop_on_problem, outcomes, i + 1,
                    IF h = "problem" THEN [st1 EXCEPT !.problems = Append(@, i)]
                    ELSE IF h = "not_needed" THEN [st1 EXCEPT !.not_needed = Append(@, i)]
                    ELSE st1)
with_build_tree(cmd, stop_on_problem, outcomes) ==
    with_build_tree_from(cmd, stop_on_problem, outcomes, 1,
        [attempted |-> {}, problems |-> <<>>, not_needed |-> <<>>, raised |-> 0, reported |-> <<>>])

CommandInit ==
    /\ ruleset = PlainRuleSet
    /\ db = EmptyDb
    /\ processes = EmptyTable
    /\ pc = [p \in Procs |-> "out"]
    /\ cand = [p \in Procs |-> NoRule]
    /\ args = NoCall /\ result = NoCall
CallCommand(cmd, stop_on_problem, outcomes) ==
    /\ args = NoCall
    /\ args' = <<cmd, stop_on_problem, outcomes>>
    /\ result' = with_build_tree(cmd, stop_on_problem, outcomes)
    /\ UNCHANGED <<ruleset, db, processes, pc, cand>>
CommandNext ==
    /\ args = NoCall
    /\ \E cmd \in Commands : \E stop_on_problem \in BOOLEAN : \E outcomes \in OutcomeLists :
          CallCommand(cmd, stop_on_problem, outcomes)
CommandSpec == CommandInit /\ [][CommandNext]_vars

\* C16: in pull, push and merge, without -stop a GiveUp raised for one
\* checkout is recorded and every remaining checkout is still attempted, all
\* recorded problems being re-reported at the end; with -stop the first GiveUp
\* propagates and no later checkout is attempted; in pull an Unsupported goes
\* to the not-needed list and never stops the loop, with or without -stop.
C16_ProblemsAndStop ==
    args # NoCall =>
        LET cmd == args[1]
            stop == args[2]
            outs == args[3]
            n == Len(outs)
            notNeeded == {i \in 1..n : cmd = "pull" /\ outs[i] = "Unsupported"}
            gaveUp == {i \in 1..n : outs[i] # "ok"} \ notNeeded
        IN  /\ ~stop =>
                /\ result.raised = 0 /\ result.attempted = 1..n
                /\ Range(result.problems) = gaveUp
                /\ gaveUp \subseteq Range(result.reported)
            /\ (stop /\ gaveUp # {}) =>
                /\ result.raised \in gaveUp
                /\ \A i \in gaveUp : result.raised <= i
                /\ result.attempted = 1..result.raised
            /\ (stop /\ gaveUp = {}) => result.raised = 0 /\ result.attempted = 1..n
            /\ result.attempted \cap notNeeded = Range(result.not_needed)
            /\ result.raised \notin notNeeded
\* a pull without -stop has met an Unsupported and then a GiveUp and gone on
C16_Witness ==
    /\ args # NoCall /\ args[1] = "pull" /\ ~args[2]
    /\ args[3] = <<"Unsupported", "GiveUp", "ok">>
    /\ result.attempted = {1, 2, 3} /\ result.problems = <<2>> /\ result.not_needed = <<1>>


\* ---------------------------------------------------------------------
\* Propagation of GPL licenses: get_implicit_gpl_checkouts
\* ---------------------------------------------------------------------
Checkouts == {"c1", "c2"}
Packages == {"p1"}
\* a propagating GPL license, a GPL license with a linking exception, a
\* license that is not GPL, and no license registered at all
LicenseKinds == {"gpl", "gpl_exception", "binary", "none"}
is_gpl(license) == license \in {"gpl", "gpl_exception"}
propagates(license) == license = "gpl"
\* what the builder knows when the licenses are examined
LicenseBuilds ==
    [checkout_licenses : [Checkouts -> LicenseKinds],
     nothing_builds_against : SUBSET Checkouts,
     license_not_affected_by : [Checkouts \cup Packages -> SUBSET Checkouts],
     required_by : [Checkouts -> SUBSET (Checkouts \cup Packages)],
     checkouts_for_package : [Packages -> SUBSET Checkouts]]
get_checkout_license(B, co) == B.checkout_licenses[co]
get_license_not_affected_by(B, this_label) == B.license_not_affected_by[this_label]
get_nothing_builds_against(B, co) == co \in B.nothing_builds_against
get_gpl_checkouts(B) == {co \in Checkouts : is_gpl(get_checkout_license(B, co))}
add_if_not_us_or_gpl(B, our_co, this_co) ==
    IF our_co = this_co THEN {}
    ELSE IF is_gpl(get_checkout_license(B, this_co)) THEN {}
    ELSE {this_co}
\* what one label that depends on the GPL checkout co_label adds to the result
implicit_from_label(B, co_label, this_label) ==
    IF this_label \in Packages
        THEN IF co_label \in get_license_not_affected_by(B, this_label) THEN {}
             ELSE UNION {IF co_label \in get_license_not_affected_by(B, this_co) THEN {}
                         ELSE add_if_not_us_or_gpl(B, co_label, this_co) :
                         this_co \in B.checkouts_for_package[this_label]}
    ELSE add_if_not_us_or_gpl(B, co_label, this_label)
get_implicit_gpl_checkouts(B) ==
    UNION {IF ~propagates(get_checkout_license(B, co_label)) THEN {}
           ELSE IF get_nothing_builds_against(B, co_label) THEN {}
           ELSE UNION {implicit_from_label(B, co_label, this_label) :
                       this_label \in B.required_by[co_label]} :
           co_label \in get_gpl_checkouts(B)}

LicenseInit ==
    /\ ruleset = PlainRuleSet
    /\ db = EmptyDb
    /\ processes = EmptyTable
    /\ pc = [p \in Procs |-> "out"]
    /\ cand = [p \in Procs |-> NoRule]
    /\ args = NoCall /\ result = NoCall
CallGetImplicitGplCheckouts(B) ==
    /\ args = NoCall
    /\ args' = <<B>>
    /\ result' = get_implicit_gpl_checkouts(B)
    /\ UNCHANGED <<ruleset, db, processes, pc, cand>>
LicenseNext ==
    /\ args = NoCall
    /\ \E B \in LicenseBuilds : CallGetImplicitGplCheckouts(B)
LicenseSpec == LicenseInit /\ [][LicenseNext]_vars

C18_WildcardLastTags ==
    [][\A p \in Workers :
          ApiSetRuleDone(p, WILD) =>
              \A lr \in db'.labels_to_rules :
                  (/\ lr[2] = WILD
                   /\ label_wild_rules_done(db', lr[1])
                   /\ RuleRowIs(db', lr[1], DONE))
                      => (lr[1] \in DOMAIN db'.labels /\ db'.labels[lr[1]].done)]_vars

\* C19: set_rule_done on a non-transient target leaves the row with
\* status done and no owner and takes the target out of rules_to_build; on a
\* transient target it leaves the row clear with no owner, still in
\* rules_to_build, and the rule in the caller's local done set: no transient
\* rule ever has status done in the database, any other worker can claim it,
\* and is_rule_done changes for the caller only.
C19_DoneOrLocallyDone ==
    /\ [](\A r \in Labels : IsTransient(r) => ~RuleRowIs(db, r, DONE))
    /\ [][\A p \in Workers : Finish(p) =>
            LET r == cand[p] IN
            /\ db'.rules[r].owner = NULL
            /\ is_rule_done(db', p, r)
            /\ IF ~IsTransient(r)
                 THEN RuleRowIs(db', r, DONE) /\ r \notin DOMAIN db'.rules_to_build
                 ELSE /\ RuleRowIs(db', r, CLEAR)
                      /\ r \in DOMAIN db'.rules_to_build
                      /\ r \in db'.local_rules[p]
                      /\ \A q \in Procs \ {p} :
                            is_rule_done(db', q, r) = is_rule_done(db, q, r)
                      /\ \A q \in Workers \ {p} :
                            set_rule_processing_result(
                                set_rule_processing_update(db', q, r), q, r)]_vars
\* one worker has a transient rule done locally, the other does not and has
\* claimed the same rule after it
C19_Witness ==
    \E p, q \in Workers : \E r \in Labels :
        /\ IsTransient(r) /\ p # q
        /\ is_rule_done(db, p, r) /\ ~is_rule_done(db, q, r)
        /\ Holds(q) /\ cand[q] = r /\ Status(r) = PROCESSING /\ Owner(r) = q

\* C20: request_pause_others and release_pause_request called by a process
\* that is not the master leave every row of the processes table unchanged
\* (they raise MuddleBug); request_pause_others called by the master sets
\* pause_requested_by to the master on every other row and leaves the
\* master's own row as it was.
C20_PauseRequestsByMaster ==
    [][\A p \in Procs :
          /\ ((CallRequestPause(p) \/ CallReleasePause(p)) /\ ~is_master(processes, p))
                => processes' = processes
          /\ (CallRequestPause(p) /\ is_master(processes, p))
                => /\ processes'[p] = processes[p]
                   /\ \A q \in DOMAIN processes' \ {p} :
                         processes'[q].pause_requested_by = p]_vars

\* ---------------------------------------------------------------------
\* Tags of non-transient labels in domains: every domain has its own
\* labels table, reached through the label's domain; rows are keyed by the
\* label written without its domain and without its system flag.
\* ---------------------------------------------------------------------
RootDomain == "None"
Domains == {RootDomain, "sub"}
TagNames == {"a", "b"}
TagLabels == [domain : Domains, name : TagNames, system : BOOLEAN]
copy_with_domain(label, domain) == [label EXCEPT !.domain = domain]
copy_with_flags(label, system) == [label EXCEPT !.system = system]
\* the adapter that turns a Label into the value of a LABEL column
adapt_label(label) == copy_with_flags(label, FALSE)
\* (mutant) every label's tags are kept in the root database
connect_domain_db_root(domain) == RootDomain
\* the database file a domain's labels table is in
connect_domain_db(domain) == domain
EmptyStores == [d \in Domains |-> EmptyTable]
domain_is_tag_done(D, label) ==
    LET conn == connect_domain_db(label.domain)
        key == adapt_label(copy_with_domain(label, RootDomain))
    IN  key \in DOMAIN D[conn] /\ D[conn][key].done
domain_set_tag(D, label) ==
    LET conn == connect_domain_db(label.domain)
        key == adapt_label(copy_with_domain(label, RootDomain))
    IN  [D EXCEPT ![conn] = Replace(@, key, [transient |-> FALSE, done |-> TRUE])]
domain_clear_tag(D, label) ==
    LET conn == connect_domain_db(label.domain)
        key == adapt_label(copy_with_domain(label, RootDomain))
    IN  [D EXCEPT ![conn] = Delete(@, {key})]
\* set_ruleset's rows for the labels of the rule set: always in the root
\* database, under the label without its domain, and only where no row is
domain_insert_labels(D, labels) ==
    LET keys == {adapt_label(copy_with_domain(l, RootDomain)) : l \in labels}
    IN  [D EXCEPT ![RootDomain] =
            InsertIgnore(@, keys, [k \in keys |-> [transient |-> FALSE, done |-> FALSE]])]

\* args records, for every label written without its system flag, which of
\* set_tag and clear_tag was called on it last; result is the databases
TagInit ==
    /\ ruleset = PlainRuleSet
    /\ db = EmptyDb
    /\ processes = EmptyTable
    /\ pc = [p \in Procs |-> "out"]
    /\ cand = [p \in Procs |-> NoRule]
    /\ args = [l \in {adapt_label(x) : x \in TagLabels} |-> "never"]
    /\ result = EmptyStores
CallSetTag(label) ==
    /\ result' = domain_set_tag(result, label)
    /\ args' = [args EXCEPT ![adapt_label(label)] = "set_tag"]
    /\ UNCHANGED <<ruleset, db, processes, pc, cand>>
CallClearTag(label) ==
    /\ result' = domain_clear_tag(result, label)
    /\ args' = [args EXCEPT ![adapt_label(label)] = "clear_tag"]
    /\ UNCHANGED <<ruleset, db, processes, pc, cand>>
CallInsertLabels(labels) ==
    /\ result' = domain_insert_labels(result, labels)
    /\ UNCHANGED <<args, ruleset, db, processes, pc, cand>>
TagNext ==
    \/ \E label \in TagLabels : CallSetTag(label) \/ CallClearTag(label)
    \/ \E labels \in SUBSET TagLabels : CallInsertLabels(labels)
TagSpec == TagInit /\ [][TagNext]_vars

\* C21: for a non-transient label, is_tag_done is true exactly when the last
\* of set_tag and clear_tag applied to it was set_tag, whatever the system
\* flag of the label in any of the calls; set_tag is idempotent; and set_tag
\* or clear_tag on a label of one domain never changes is_tag_done for the
\* label of the same type, name, role and tag in another domain.
C21_TagFollowsLastCall ==
    /\ [](\A label \in TagLabels :
            domain_is_tag_done(result, label) <=> (args[adapt_label(label)] = "set_tag"))
    /\ [][\A label \in TagLabels :
            /\ CallSetTag(label) => domain_set_tag(result', label) = result'
            /\ (CallSetTag(label) \/ CallClearTag(label)) =>
                  \A other \in TagLabels :
                      other.domain # label.domain =>
                          (domain_is_tag_done(result', other) <=> domain_is_tag_done(result, other))]_vars
\* a label is done in the root, asked with or without its system flag,
\* while the same label of the subdomain was set and then cleared, is not
\* done and has no row
C21_Witness ==
    LET inRoot == [domain |-> RootDomain, name |-> "a", system |-> FALSE]
        inSub == [domain |-> "sub", name |-> "a", system |-> FALSE]
    IN  /\ args[inRoot] = "set_tag" /\ args[inSub] = "clear_tag"
        /\ domain_is_tag_done(result, inRoot)
        /\ domain_is_tag_done(result, copy_with_flags(inRoot, TRUE))
        /\ ~domain_is_tag_done(result, inSub)
        /\ DOMAIN result["sub"] = {}

\* C22: include_domain succeeds when every repository in the subdomain's
\* upstream table is one the parent did not use before (no parent checkout
\* on it, no parent upstream entry), even if a checkout of the subdomain uses
\* it, and the parent's upstream table then holds those entries; for a
\* repository and upstream both sides have, the name sets are unioned.
C22_UnusedReposMerge ==
    args # NoCall =>
        LET P == args[1]
            S == args[2]
        IN  /\ (\A repo \in DOMAIN S.upstreams :
                    repo \notin P.checkouts /\ repo \notin DOMAIN P.upstreams)
                => /\ result.raised = ""
                   /\ \A repo \in DOMAIN S.upstreams :
                         /\ repo \in DOMAIN result.db.upstreams
                         /\ result.db.upstreams[repo] = S.upstreams[repo]
            /\ result.raised = "" =>
                  \A repo \in DOMAIN S.upstreams \cap DOMAIN P.upstreams :
                      \A u \in DOMAIN S.upstreams[repo] \cap DOMAIN P.upstreams[repo] :
                          result.db.upstreams[repo][u] = P.upstreams[repo][u] \cup S.upstreams[repo][u]

\* C23: when the master has left with its pause request outstanding, the
\* process that next becomes master clears the marks the departed master set
\* by calling release_pause_request, so the remaining workers resume.
C23_NextMasterReleases ==
    \A p \in DOMAIN processes :
        (pc[p] = "up" /\ is_master(processes, p)) =>
            \A q \in DOMAIN processes \ {p} :
                (/\ processes[q].pause_requested_by # NULL
                 /\ processes[q].pause_requested_by \notin DOMAIN processes)
                    => release_pause_request(processes, p)[q].pause_requested_by = NULL

\* ---------------------------------------------------------------------
\* The rule methods called freely: a process that has opened the database
\* and registered calls set_ruleset, set_rules, clear_rules,
\* set_rule_processing, set_rule_done and set_rule_clear on any rule in any
\* order, and deregisters whenever it likes.
\* ---------------------------------------------------------------------
FreeRegister(p) ==
    /\ pc[p] = "out"
    /\ processes' = register_process(processes, p)
    /\ db' = [db EXCEPT !.local_tags[p] = {}, !.local_rules[p] = {}]
    /\ pc' = [pc EXCEPT ![p] = "up"]
    /\ UNCHANGED <<args, result, ruleset, cand>>
FreeDeregister(p) ==
    /\ pc[p] = "up"
    /\ processes' = deregister_process(processes, p)
    /\ pc' = [pc EXCEPT ![p] = "out"]
    /\ UNCHANGED <<args, result, ruleset, db, cand>>
FreeSetRuleset(p) ==
    /\ pc[p] = "up"
    /\ db' = set_ruleset(db, ruleset)
    /\ UNCHANGED <<args, result, ruleset, processes, pc, cand>>
FreeSetRules(p) ==
    /\ pc[p] = "up"
    /\ db' = set_rules(db, p, ruleset, Targets)
    /\ UNCHANGED <<args, result, ruleset, processes, pc, cand>>
FreeClearRules(p) ==
    /\ pc[p] = "up"
    /\ db' = clear_rules(db)
    /\ UNCHANGED <<args, result, ruleset, processes, pc, cand>>
FreeSetRuleProcessing(p, r) ==
    /\ pc[p] = "up"
    /\ db' = set_rule_processing_update(db, p, r)
    /\ UNCHANGED <<args, result, ruleset, processes, pc, cand>>
FreeSetRuleDone(p, r) ==
    /\ pc[p] = "up"
    /\ db' = set_rule_done(db, p, r)
    /\ UNCHANGED <<args, result, ruleset, processes, pc, cand>>
FreeSetRuleClear(p, r) ==
    /\ pc[p] = "up"
    /\ db' = set_rule_clear(db, p, r)
    /\ UNCHANGED <<args, result, ruleset, processes, pc, cand>>
FreeNext ==
    \E p \in Workers :
        \/ FreeRegister(p) \/ FreeDeregister(p)
        \/ FreeSetRuleset(p) \/ FreeSetRules(p) \/ FreeClearRules(p)
        \/ \E r \in RuleTargets(ruleset) :
              FreeSetRuleProcessing(p, r) \/ FreeSetRuleDone(p, r) \/ FreeSetRuleClear(p, r)
FreeSpec == Init /\ [][FreeNext]_vars

\* C24: in every reachable state each rule row with status processing is
\* owned by a process that is in the processes table: after a process's
\* deregister_process no rule remains in processing under that owner.
C24_OwnerRegistered ==
    \A r \in DOMAIN db.rules :
        db.rules[r].status = PROCESSING => db.rules[r].owner \in DOMAIN processes

\* C25: set_rule_done and set_rule_clear called by a process that does not
\* own the rule (the rule is clear, done, or processing under another
\* process) leave the rule's status and owner unchanged: only the process
\* that claimed a rule can release it.
C25_OnlyOwnerReleases ==
    \A p \in Workers : \A r \in DOMAIN db.rules :
        (pc[p] = "up" /\ ~(db.rules[r].status = PROCESSING /\ db.rules[r].owner = p)) =>
            /\ set_rule_done(db, p, r).rules[r] = db.rules[r]
            /\ set_rule_clear(db, p, r).rules[r] = db.rules[r]

\* C26: while a pause is in force (the master has called
\* request_pause_others and not yet release_pause_request) every registered
\* process other than the master has pause_requested_by set, including one
\* that calls register_process after the request was made.
C26_PauseCoversNewcomers ==
    [][\A m \in Procs : \A p \in Procs \ {m} :
          (/\ is_master(processes, m) /\ pc[m] = "up"
           /\ \E q \in DOMAIN processes : processes[q].pause_requested_by = m
           /\ CallRegister(p))
              => processes'[p].pause_requested_by # NULL]_vars

\* C27: a call of set_rule_processing that returns false changes nothing in
\* the calling process: a transient-target rule the caller had completed is
\* still in its local done set and is_rule_done is still true for it.
C27_FailedClaimKeepsDone ==
    \A p \in Workers : \A r \in DOMAIN db.rules :
        LET after == set_rule_processing_update(db, p, r)
        IN  (pc[p] = "up" /\ ~set_rule_processing_result(after, p, r)) =>
                /\ after.local_rules[p] = db.local_rules[p]
                /\ is_rule_done(after, p, r) = is_rule_done(db, p, r)

\* C28: after any sequence of set_ruleset, set_rules, set_rule_processing,
\* set_rule_done, set_rule_clear and clear_rules every target in
\* rules_to_build has a row in rules: get_rule_for_label returns a rule for
\* every candidate get_satisfied_rule reads from rules_to_build.
C28_BuildRowsHaveRules ==
    \A t \in DOMAIN db.rules_to_build : get_rule_for_label(db, t) # {}

\* C29: is_paused() returns true if and only if the calling process's row
\* in the processes table has paused=1, that is after a pause() that took
\* effect and before the unpause() that took effect.
C29_IsPausedIffFlag ==
    \A p \in DOMAIN processes :
        pc[p] = "up" => (is_paused(processes, p) <=> processes[p].paused)

====
